---------------------------- MODULE Spec2Model ----------------------------
(***************************************************************************)
(* Gaussian Cube importer: read_vdb_grids and load_cube of                 *)
(* src/cube_blender/__init__.py as a state machine.                        *)
(*                                                                         *)
(* A file is a sequence of lines, a line the sequence of its whitespace    *)
(* separated tokens (str.split()), a token a record [t, v]:                *)
(*   t = "int": a decimal integer literal v  (int() and float() accept it) *)
(*   t = "flt": a float literal such as 0.5  (int() raises ValueError)     *)
(*   t = "txt": any other text               (int() and float() raise)     *)
(* File names and grid names are sequences of one-character strings.       *)
(***************************************************************************)
EXTENDS Integers, Sequences, FiniteSets, TLC

\* ------------------------------------------------------------- bounds ----
MaxDir == 2        \* directory entries returned by os.listdir
MaxN == 2          \* voxels along one axis
MaxF == 2          \* declared field (orbital) count
MaxAtoms == 2      \* |atom count|
MaxK == 2          \* payload values missing or in excess

\* -------------------------------------------------------- generalities ---
RECURSIVE Exp2(_)
Exp2(e) == IF e = 0 THEN 1 ELSE 2 * Exp2(e - 1)
Min(a, b) == IF a < b THEN a ELSE b
Max(a, b) == IF a > b THEN a ELSE b
Range(s) == {s[i] : i \in 1..Len(s)}
Take(s, n) == SubSeq(s, 1, Min(n, Len(s)))
Drop(s, n) == SubSeq(s, n + 1, Len(s))

RECURSIVE Flatten(_)
Flatten(ss) == IF ss = <<>> THEN <<>> ELSE Head(ss) \o Flatten(Tail(ss))

\* Sequences over S of length at most n, and those without repetition.
RECURSIVE SeqsUpTo(_, _)
SeqsUpTo(S, n) ==
    IF n = 0 THEN {<<>>}
    ELSE LET shorter == SeqsUpTo(S, n - 1)
         IN  shorter \cup {Append(s, x) : s \in shorter, x \in S}
NoRepeat(s) == \A i, j \in 1..Len(s) : s[i] = s[j] => i = j

\* ------------------------------------------------- text <-> integers -----
Digits == <<"0", "1", "2", "3", "4", "5", "6", "7", "8", "9">>
IsDigit(ch) == ch \in Range(Digits)
DigitVal(ch) == (CHOOSE d \in 1..10 : Digits[d] = ch) - 1

\* int(num_str) on a run of decimal digits: leading zeros carry no value.
RECURSIVE ParseInt(_)
ParseInt(ds) ==
    IF ds = <<>> THEN 0
    ELSE 10 * ParseInt(SubSeq(ds, 1, Len(ds) - 1)) + DigitVal(ds[Len(ds)])

\* str(n) / f"{n}": decimal, no leading zeros, "-" for a negative number.
RECURSIVE StrNat(_)
StrNat(n) == IF n < 10 THEN <<Digits[n + 1]>>
             ELSE StrNat(n \div 10) \o <<Digits[(n % 10) + 1]>>
Str(n) == IF n < 0 THEN <<"-">> \o StrNat(-n) ELSE StrNat(n)

\* ---------------------------------------------- sequence resolver -----
\* re.search(r'(\d+)(?=(\.[^.]+)$)', filename): the spans <<s, e>> the
\* expression can match, then the leftmost start and, \d+ being greedy, the
\* longest run from it.
DigitsBeforeExt(name) ==
    {se \in (1..Len(name)) \X (1..Len(name)) :
        /\ se[1] <= se[2]
        /\ se[2] + 2 <= Len(name)
        /\ name[se[2] + 1] = "."
        /\ \A i \in se[1]..se[2] : IsDigit(name[i])
        /\ \A i \in (se[2] + 2)..Len(name) : name[i] # "."}
HasMatch(name) == DigitsBeforeExt(name) # {}
MatchSpan(name) ==
    CHOOSE se \in DigitsBeforeExt(name) :
        \A other \in DigitsBeforeExt(name) :
            \/ se[1] < other[1]
            \/ se[1] = other[1] /\ se[2] >= other[2]
Prefix(name) == SubSeq(name, 1, MatchSpan(name)[1] - 1)
Suffix(name) == SubSeq(name, MatchSpan(name)[2] + 1, Len(name))

\* pattern.match(f) for pattern ^prefix(\d+)suffix$ and its group(1).
PatternMatch(prefix, suffix, f) ==
    /\ Len(f) > Len(prefix) + Len(suffix)
    /\ SubSeq(f, 1, Len(prefix)) = prefix
    /\ SubSeq(f, Len(f) - Len(suffix) + 1, Len(f)) = suffix
    /\ \A i \in (Len(prefix) + 1)..(Len(f) - Len(suffix)) : IsDigit(f[i])
NumStr(prefix, suffix, f) == SubSeq(f, Len(prefix) + 1, Len(f) - Len(suffix))

\* The loop over all_files: one (path, grid_name, num_val) per matching entry,
\* in listing order.
RECURSIVE FoundSequences(_, _, _)
FoundSequences(prefix, suffix, all_files) ==
    IF all_files = <<>> THEN <<>>
    ELSE LET f == Head(all_files)
             rest == FoundSequences(prefix, suffix, Tail(all_files))
         IN  IF PatternMatch(prefix, suffix, f)
             THEN <<[path |-> f,
                     grid_name |-> Str(ParseInt(NumStr(prefix, suffix, f))),
                     num_val |-> ParseInt(NumStr(prefix, suffix, f))]>> \o rest
             ELSE rest

\* A sort on the wrong key: descending.
SortKeyDescending(x) == 0 - x.num_val
\* list.sort(key=lambda x: x[2]): ascending by num_val, stable.
SortKey(x) == x.num_val
RECURSIVE InsertSorted(_, _)
InsertSorted(sorted, x) ==
    IF sorted = <<>> THEN <<x>>
    ELSE IF SortKey(Head(sorted)) <= SortKey(x)
         THEN <<Head(sorted)>> \o InsertSorted(Tail(sorted), x)
         ELSE <<x>> \o sorted
RECURSIVE SortByNum(_)
SortByNum(xs) ==
    IF xs = <<>> THEN <<>>
    ELSE InsertSorted(SortByNum(SubSeq(xs, 1, Len(xs) - 1)), xs[Len(xs)])

NoName == <<>>     \* None: no name override (str(num_val) is never empty)
SinglePlan(path) == <<[path |-> path, name |-> NoName]>>

\* The plan built without looking at the flag.
SequencePlanAlways(path, seqflag, all_files) ==
    IF ~HasMatch(path) THEN SinglePlan(path)
    ELSE LET found == SortByNum(FoundSequences(Prefix(path), Suffix(path), all_files))
         IN  IF found # <<>>
             THEN [i \in 1..Len(found) |->
                      [path |-> found[i].path, name |-> found[i].grid_name]]
             ELSE SinglePlan(path)
\* to_process as load_cube builds it.
SequencePlan(path, seqflag, all_files) ==
    IF ~seqflag THEN SinglePlan(path)
    ELSE IF ~HasMatch(path) THEN SinglePlan(path)
    ELSE LET found == SortByNum(FoundSequences(Prefix(path), Suffix(path), all_files))
         IN  IF found # <<>>
             THEN [i \in 1..Len(found) |->
                      [path |-> found[i].path, name |-> found[i].grid_name]]
             ELSE SinglePlan(path)

\* ------------------------------------------------------ the parser ------
I(n) == [t |-> "int", v |-> n]
Fl(n) == [t |-> "flt", v |-> n]
Txt == [t |-> "txt", v |-> 0]
IntOk(tok) == tok.t = "int"                 \* int(tok) does not raise
FloatOk(tok) == tok.t \in {"int", "flt"}    \* float(tok) does not raise

\* f.readline().split() with p lines already consumed: at end of file
\* readline() returns '' and the split is the empty list.
ReadLine(lines, p) == IF p < Len(lines) THEN lines[p + 1] ELSE <<>>
Advance(lines, p, n) == Min(p + n, Len(lines))

\* line[1:4]: a slice never raises, it is just shorter on a short line.
Slice14(line) == SubSeq(line, 2, Min(4, Len(line)))
\* int(line[0]) and [float(x) for x in line[1:4]] both succeed.
CountVecOk(line) ==
    /\ line # <<>>
    /\ IntOk(line[1])
    /\ \A i \in 1..Len(Slice14(line)) : FloatOk(Slice14(line)[i])
VecOf(line) == [i \in 1..Len(Slice14(line)) |-> Slice14(line)[i].v]

\* [int(x) for x in toks] succeeds.
AllInts(toks) == \A i \in 1..Len(toks) : IntOk(toks[i])
IntsOf(toks) == [i \in 1..Len(toks) |-> toks[i].v]

\* np.fromstring(content, sep=' '): the numbers of the text in source order,
\* line breaks being whitespace; parsing stops at the first token that is no
\* number.
RECURSIVE NumericPrefix(_)
NumericPrefix(toks) ==
    IF toks = <<>> \/ ~FloatOk(Head(toks)) THEN <<>>
    ELSE <<Head(toks).v>> \o NumericPrefix(Tail(toks))
FromString(lines, p) == NumericPrefix(Flatten(Drop(lines, p)))

\* data[:expected_len] (Python slice: a negative bound counts from the end).
SliceTo(data, n) ==
    IF n >= 0 THEN Take(data, n) ELSE Take(data, Max(0, Len(data) + n))
\* np.pad(data, (0, expected_len - data.size)): zeros appended.
PadTo(data, n) == data \o [i \in 1..(n - Len(data)) |-> 0]
\* A reconciliation that keeps the tail of a long payload, not its head.
ReconcileKeepTail(data, expected_len) ==
    IF Len(data) > expected_len THEN Drop(data, Len(data) - expected_len)
    ELSE PadTo(data, expected_len)
\* Lines 154-159.
Reconcile(data, expected_len) ==
    IF Len(data) # expected_len
    THEN IF Len(data) > expected_len THEN SliceTo(data, expected_len)
         ELSE PadTo(data, expected_len)
    ELSE data

\* data.reshape(shape) succeeds: the sizes agree.
ShapeOf(a, b, c, nmo) == IF nmo > 1 THEN <<a, b, c, nmo>> ELSE <<a, b, c>>
RECURSIVE Product(_)
Product(shape) == IF shape = <<>> THEN 1 ELSE Head(shape) * Product(Tail(shape))
ReshapeOk(data, shape) ==
    /\ \A i \in 1..Len(shape) : shape[i] >= 0
    /\ Product(shape) = Len(data)

\* mat[r, :3] = v * scale: v is broadcast into the three columns, which numpy
\* allows for one component or three and refuses (ValueError) otherwise.
BroadcastOk(v) == Len(v) \in {1, 3}
Row(v, sc) == IF Len(v) = 1 THEN <<v[1] * sc, v[1] * sc, v[1] * sc>>
              ELSE <<v[1] * sc, v[2] * sc, v[3] * sc>>
Mat(o, a, b, c, sc) == <<Row(a, sc), Row(b, sc), Row(c, sc), Row(o, sc)>>
Det3(m) == m[1][1] * (m[2][2] * m[3][3] - m[2][3] * m[3][2])
         - m[1][2] * (m[2][1] * m[3][3] - m[2][3] * m[3][1])
         + m[1][3] * (m[2][1] * m[3][2] - m[2][2] * m[3][1])
\* openvdb.createLinearTransform(mat) refuses a singular linear part.
LinearTransformOk(m) == Det3(m) # 0
TransformOk(o, a, b, c, sc) ==
    /\ BroadcastOk(a) /\ BroadcastOk(b) /\ BroadcastOk(c) /\ BroadcastOk(o)
    /\ LinearTransformOk(Mat(o, a, b, c, sc))

\* A layout with the field index slowest: field m is the m-th block of voxels.
VolDataFieldSlowest(data, nmo, m) ==
    IF nmo > 1
    THEN [x \in 1..(Len(data) \div nmo) |-> data[m * (Len(data) \div nmo) + x]]
    ELSE data
\* data[:, :, :, m] of the reshaped array, flattened (X slowest, Z fastest);
\* the whole array when there is one field.
VolData(data, nmo, m) ==
    IF nmo > 1 THEN [x \in 1..(Len(data) \div nmo) |-> data[(x - 1) * nmo + m + 1]]
    ELSE data

\* vol_data.astype(np.float32), line 199: each value goes to the nearest
\* number with a significand of 24 bits, ties to the even one. The values of
\* the model are whole numbers, far inside the range of the exponent.
RECURSIVE Ulp(_)
Ulp(v) == IF v < 16777216 THEN 1 ELSE 2 * Ulp(v \div 2)
Float32(v) ==
    LET a == IF v < 0 THEN 0 - v ELSE v
        u == Ulp(a)
        q == a \div u
        r == a % u
        n == IF 2 * r < u \/ (2 * r = u /\ q % 2 = 0) THEN q * u ELSE (q + 1) * u
    IN  IF v < 0 THEN 0 - n ELSE n
AsFloat32(arr) == [x \in 1..Len(arr) |-> Float32(arr[x])]

Density == <<"D", "e", "n", "s", "i", "t", "y">>
\* Naming that gives every field of a file the forced name as it is.
GridNameNoSuffix(force, multi, mode, indices, nmo, m) ==
    IF force # NoName THEN force
    ELSE IF multi
         THEN IF mode = "MO_INDICES" /\ indices # <<>>
              THEN Str(indices[m + 1])
              ELSE Str(m + 1)
         ELSE Density
\* Lines 183-195, m 0-based.
GridName(force, multi, mode, indices, nmo, m) ==
    IF force # NoName
    THEN IF nmo > 1 THEN force \o <<"_">> \o Str(m + 1) ELSE force
    ELSE IF multi
         THEN IF mode = "MO_INDICES" /\ indices # <<>>
              THEN Str(indices[m + 1])
              ELSE Str(m + 1)
         ELSE Density

\* The loop of lines 177-202: one grid per m in range(n_mo).
Grids(data, shape3, mat, force, multi, mode, indices, nmo) ==
    [g \in 1..Max(nmo, 0) |->
        [name |-> GridName(force, multi, mode, indices, nmo, g - 1),
         data |-> AsFloat32(VolData(data, nmo, g - 1)),
         shape |-> shape3,
         transform |-> mat]]

\* ------------------------------------------------------- the state -----
VARIABLES
    filepath,          \* load_cube's argument (a name in the one directory)
    import_sequence,   \* load_cube's flag
    naming_mode,       \* "MO_INDICES" or "SEQUENTIAL"
    scale,             \* global scale factor
    all_files,         \* what os.listdir(base_dir) returns, in its order
    fs,                \* name -> [exists, lines]: what open(name) finds
    pc,                \* position in load_cube / read_vdb_grids
    to_process,        \* the plan: sequence of [path, name]
    k,                 \* files of the plan already handled
    all_grids,         \* grids accumulated so far
    output_vdb_name,   \* destination handed to the writer
    written,           \* the calls of openvdb.write so far: their grid lists
    log,               \* per file handled: its path, whether it was read, the
                       \* names of the grids it gave
    pos,               \* lines of the open file consumed so far
    n_atoms, is_multi_mo, n1, n2, n3, origin, v1, v2, v3,
    n_mo, current_indices, mo_indices

inputs == <<filepath, import_sequence, naming_mode, scale, all_files, fs>>
header == <<n_atoms, is_multi_mo, n1, n2, n3, origin, v1, v2, v3>>
mohdr == <<n_mo, current_indices, mo_indices>>
batch == <<to_process, k, all_grids, output_vdb_name, written, log>>
vars == <<inputs, pc, batch, pos, header, mohdr>>

\* ------------------------------------------------------ input files ------
TitleLine == <<Txt>>
AtomLine == <<I(1), Fl(0), Fl(0), Fl(0), Fl(0)>>
OriginVec == <<0, 0, 0>>
Basis == <<<<1, 0, 0>>, <<0, 1, 0>>, <<0, 0, 1>>>>
\* "<int> <float> <float> <float>" with only the first nfl floats present.
HeaderLine(n, vec, nfl) == <<I(n)>> \o [i \in 1..nfl |-> Fl(vec[i])]
\* The orbital block: "<F> idx..." with the first j indices on that line and
\* each further index on a continuation line of its own.
MoLines(F, indices, j) ==
    <<(<<I(F)>> \o [i \in 1..j |-> I(indices[i])])>>
        \o [i \in 1..(Len(indices) - j) |-> <<I(indices[j + i])>>]
\* len values 1, 2, ..., len as float literals, width to a line.
PayloadLines(len, width) ==
    [r \in 1..((len + width - 1) \div width) |->
        [c \in 1..Min(width, len - (r - 1) * width) |-> Fl((r - 1) * width + c)]]
CubeFile(a, nfl, dims, atomLines, moLines, payloadLen) ==
    <<TitleLine, TitleLine,
      HeaderLine(a, OriginVec, nfl[1]),
      HeaderLine(dims[1], Basis[1], nfl[2]),
      HeaderLine(dims[2], Basis[2], nfl[3]),
      HeaderLine(dims[3], Basis[3], nfl[4])>>
      \o [i \in 1..atomLines |-> AtomLine]
      \o moLines
      \o PayloadLines(payloadLen, dims[3])
Full == <<3, 3, 3, 3>>
Abs(n) == IF n < 0 THEN -n ELSE n
\* A well-formed file: atom count a (negative: F fields with these indices).
GoodFile(a, dims, F, indices, j) ==
    CubeFile(a, Full, dims, Abs(a),
             IF a < 0 THEN MoLines(F, indices, j) ELSE <<>>,
             dims[1] * dims[2] * dims[3] * (IF a < 0 THEN F ELSE 1))

File(lines) == [exists |-> TRUE, lines |-> lines]
NoFile == [exists |-> FALSE, lines |-> <<>>]

\* ---------------------------------------------------- the operations ---
\* os.path.splitext(filepath)[0]: up to the last dot, unless only dots
\* precede it.
SplitRoot(name) ==
    LET dots == {i \in 1..Len(name) :
                    name[i] = "." /\ \E h \in 1..(i - 1) : name[h] # "."}
    IN  IF dots = {} THEN name
        ELSE SubSeq(name, 1, (CHOOSE i \in dots : \A h \in dots : h <= i) - 1)
\* Lines 214 and 236-239.
OutputName(path, seqflag) ==
    IF seqflag /\ HasMatch(path)
    THEN LET name_base == Prefix(path)
             last == IF name_base = <<>> THEN "" ELSE name_base[Len(name_base)]
         IN  (IF last # "_" /\ last # "." THEN name_base \o <<"_">> ELSE name_base)
                 \o <<"a", "l", "l", ".", "v", "d", "b">>
    ELSE SplitRoot(path) \o <<".", "v", "d", "b">>

ReaderReset ==
    /\ pos' = 0
    /\ n_atoms' = 0 /\ is_multi_mo' = FALSE
    /\ n1' = 0 /\ n2' = 0 /\ n3' = 0
    /\ origin' = <<>> /\ v1' = <<>> /\ v2' = <<>> /\ v3' = <<>>
    /\ n_mo' = 1 /\ current_indices' = <<>> /\ mo_indices' = <<>>

CurPath == to_process[k + 1].path
CurName == to_process[k + 1].name
CurLines == fs[CurPath].lines

\* An exception that leaves the loop instead of the iteration.
RaiseAbort ==
    /\ pc' = "loop"
    /\ k' = Len(to_process)
    /\ log' = Append(log, [path |-> CurPath, ok |-> FALSE, names |-> <<>>])
    /\ ReaderReset
    /\ UNCHANGED <<inputs, to_process, all_grids, output_vdb_name, written>>
\* except Exception (line 277): the file is logged and the loop goes on.
Raise ==
    /\ pc' = "loop"
    /\ k' = k + 1
    /\ log' = Append(log, [path |-> CurPath, ok |-> FALSE, names |-> <<>>])
    /\ ReaderReset
    /\ UNCHANGED <<inputs, to_process, all_grids, output_vdb_name, written>>

\* Lines 209-269: the plan and the output name.
PlanSequence ==
    /\ pc = "start"
    /\ to_process' = SequencePlan(filepath, import_sequence, all_files)
    /\ output_vdb_name' = OutputName(filepath, import_sequence)
    /\ pc' = "loop"
    /\ UNCHANGED <<inputs, k, all_grids, written, log, pos, header, mohdr>>

\* Line 273 and line 96: the next file of the plan is opened.
OpenFile ==
    /\ pc = "loop"
    /\ k < Len(to_process)
    /\ IF fs[CurPath].exists
       THEN /\ pc' = "header"
            /\ UNCHANGED <<inputs, batch, pos, header, mohdr>>
       ELSE Raise

\* Lines 98-123: two title lines, the atom count and origin, three axes.
ReadHeader ==
    /\ pc = "header"
    /\ LET l3 == ReadLine(CurLines, 2)
           l4 == ReadLine(CurLines, 3)
           l5 == ReadLine(CurLines, 4)
           l6 == ReadLine(CurLines, 5)
       IN  IF CountVecOk(l3) /\ CountVecOk(l4) /\ CountVecOk(l5) /\ CountVecOk(l6)
           THEN /\ n_atoms' = Abs(l3[1].v)
                /\ is_multi_mo' = (l3[1].v < 0)
                /\ origin' = VecOf(l3)
                /\ n1' = l4[1].v /\ v1' = VecOf(l4)
                /\ n2' = l5[1].v /\ v2' = VecOf(l5)
                /\ n3' = l6[1].v /\ v3' = VecOf(l6)
                /\ pos' = Advance(CurLines, 0, 6)
                /\ pc' = "atoms"
                /\ UNCHANGED <<inputs, batch, mohdr>>
           ELSE Raise

\* Lines 126-127: n_atoms calls of readline(), which never raises.
SkipAtoms ==
    /\ pc = "atoms"
    /\ pos' = Advance(CurLines, pos, n_atoms)
    /\ pc' = IF is_multi_mo THEN "mo_header" ELSE "data"
    /\ UNCHANGED <<inputs, batch, header, mohdr>>

\* Lines 133-139 and 145-146: the first line of the orbital block.
ReadMOHeader ==
    /\ pc = "mo_header"
    /\ LET line == ReadLine(CurLines, pos)
           nmo == IF IntOk(line[1]) THEN line[1].v ELSE 1
           cur == IF Len(line) > 1 THEN IntsOf(Tail(line)) ELSE <<>>
       IN  IF line # <<>> /\ AllInts(Tail(line))
           THEN /\ n_mo' = nmo
                /\ current_indices' = cur
                /\ pos' = Advance(CurLines, pos, 1)
                /\ IF nmo > 1
                   THEN pc' = "index_test" /\ mo_indices' = <<>>
                   ELSE /\ pc' = "data"
                        /\ mo_indices' = IF nmo = 1 /\ cur # <<>>
                                         THEN Take(cur, 1) ELSE <<>>
                /\ UNCHANGED <<inputs, batch, header>>
           ELSE Raise

\* Line 141, and line 144 on leaving the loop.
IndexLoopTest ==
    /\ pc = "index_test"
    /\ IF Len(current_indices) < n_mo
       THEN pc' = "index_read" /\ UNCHANGED mo_indices
       ELSE pc' = "data" /\ mo_indices' = Take(current_indices, n_mo)
    /\ UNCHANGED <<inputs, batch, pos, header, n_mo, current_indices>>

\* Lines 142-143: one continuation line.
IndexLoopRead ==
    /\ pc = "index_read"
    /\ LET line == ReadLine(CurLines, pos)
       IN  IF AllInts(line)
           THEN /\ current_indices' = current_indices \o IntsOf(line)
                /\ pos' = Advance(CurLines, pos, 1)
                /\ pc' = "index_test"
                /\ UNCHANGED <<inputs, batch, header, n_mo, mo_indices>>
           ELSE Raise

\* Lines 149-204 and 276: the payload is decoded, the grids are built and
\* appended to all_grids.
ReadData ==
    /\ pc = "data"
    /\ LET data == Reconcile(FromString(CurLines, pos), n1 * n2 * n3 * n_mo)
           grids == Grids(data, <<n1, n2, n3>>, Mat(origin, v1, v2, v3, scale),
                          CurName, is_multi_mo, naming_mode, mo_indices, n_mo)
       IN  IF /\ ReshapeOk(data, ShapeOf(n1, n2, n3, n_mo))
              /\ TransformOk(origin, v1, v2, v3, scale)
           THEN /\ all_grids' = all_grids \o grids
                /\ log' = Append(log, [path |-> CurPath, ok |-> TRUE,
                                       names |-> [g \in 1..Len(grids) |-> grids[g].name]])
                /\ k' = k + 1
                /\ pc' = "loop"
                /\ ReaderReset
                /\ UNCHANGED <<inputs, to_process, output_vdb_name, written>>
           ELSE Raise

\* The check of line 280 left out.
EmptyBatchNever(grids) == FALSE
\* Line 280: not all_grids.
EmptyBatch(grids) == grids = <<>>

\* Lines 280-284: the empty batch is an error, anything else is written.
Finish ==
    /\ pc = "loop"
    /\ k = Len(to_process)
    /\ IF EmptyBatch(all_grids)
       THEN pc' = "raised" /\ UNCHANGED written
       ELSE /\ pc' = "written"
            /\ written' = Append(written, [name |-> output_vdb_name, grids |-> all_grids])
    /\ UNCHANGED <<inputs, to_process, k, all_grids, output_vdb_name, log,
                   pos, header, mohdr>>

Next ==
    \/ PlanSequence
    \/ OpenFile
    \/ ReadHeader
    \/ SkipAtoms
    \/ ReadMOHeader
    \/ IndexLoopTest
    \/ IndexLoopRead
    \/ ReadData
    \/ Finish

\* ------------------------------------------------- initial states ------
InitProgram ==
    /\ pc = "start"
    /\ to_process = <<>> /\ k = 0 /\ all_grids = <<>>
    /\ output_vdb_name = <<>> /\ written = <<>> /\ log = <<>>
    /\ pos = 0
    /\ n_atoms = 0 /\ is_multi_mo = FALSE
    /\ n1 = 0 /\ n2 = 0 /\ n3 = 0
    /\ origin = <<>> /\ v1 = <<>> /\ v2 = <<>> /\ v3 = <<>>
    /\ n_mo = 1 /\ current_indices = <<>> /\ mo_indices = <<>>

Modes == {"MO_INDICES", "SEQUENTIAL"}
Indices(F) == [i \in 1..F |-> 2 * i + 3]      \* 5, 7, 9, ...
Unit == <<1, 1, 1>>

\* Directories of numbered files a<digits>.c beside other files.
DigitRuns == {<<"1">>, <<"0", "0", "1">>, <<"2">>, <<"0", "1", "0">>}
SeqName(d) == <<"a">> \o d \o <<".", "c">>
OtherNames == {<<"b", "1", ".", "c">>}
DirNames == {SeqName(d) : d \in DigitRuns} \cup OtherNames
StartNames == DirNames \cup {<<"a", ".", "c">>, <<"a", "1">>}
Listings(n) == {s \in SeqsUpTo(DirNames, n) : NoRepeat(s)}
\* The directory a2, a010, a001 in each order a listing can have.
ExampleListings ==
    {s \in SeqsUpTo({SeqName(<<"2">>), SeqName(<<"0", "1", "0">>),
                     SeqName(<<"0", "0", "1">>)}, 3) : Len(s) = 3 /\ NoRepeat(s)}
\* What a file of a directory may hold: one density, two orbitals with the
\* second index on a continuation line, nothing at all.
BatchFiles ==
    {GoodFile(1, Unit, 1, <<>>, 0),
     GoodFile(-1, Unit, 2, Indices(2), 1),
     <<>>}

\* load_cube on a directory listing: every listed entry can be opened; the
\* start path either is listed, or is missing, or is a file the listing
\* shows under another spelling. The naming mode is left at its default in
\* sequence mode, where the names are forced.
Init ==
    /\ InitProgram
    /\ import_sequence \in BOOLEAN
    /\ naming_mode \in IF import_sequence THEN {"MO_INDICES"} ELSE Modes
    /\ scale = 1
    /\ all_files \in IF import_sequence THEN Listings(MaxDir) \cup ExampleListings
                     ELSE Listings(1)
    /\ filepath \in StartNames
    /\ \E content \in [Range(all_files) -> BatchFiles],
          start \in {File(c) : c \in BatchFiles} \cup {NoFile} :
          fs = [f \in Range(all_files) \cup {filepath} |->
                   IF f \in Range(all_files) THEN File(content[f]) ELSE start]

Spec == Init /\ [][Next]_vars

\* One file read on its own, well-formed or damaged in one of these ways.
Dims == {<<a, b, c>> : a \in 1..MaxN, b \in 1..MaxN, c \in 1..MaxN}
AtomCounts == (0 - MaxAtoms)..MaxAtoms
IndexValues == {5, 7}
\* Header lines short of some of their three floats.
ShortHeaderFiles ==
    {CubeFile(1, nfl, <<1, 1, 2>>, 1, <<>>, 2) :
        nfl \in {<<a, b, c, d>> : a \in 0..3, b \in 0..3, c \in 0..3, d \in 0..3}}
\* Well-formed files cut after any number of lines.
Framings ==
    {x \in AtomCounts \X (1..MaxF) \X (0..MaxF) :
        x[3] <= x[2] /\ (x[1] >= 0 => x[2] = 1 /\ x[3] = 0)}
Framed(x) == GoodFile(x[1], Unit, x[2], Indices(x[2]), x[3])
CutFiles == UNION {{Take(Framed(x), n) : n \in 0..Len(Framed(x))} : x \in Framings}
\* Fewer or more atom lines than the atom count says.
AtomFiles ==
    {CubeFile(a, Full, Unit, n, IF a < 0 THEN MoLines(1, Indices(1), 1) ELSE <<>>, 1) :
        a \in AtomCounts, n \in 0..(MaxAtoms + 1)}
\* Orbital blocks: any declared count with any list of indices, laid out over
\* the header line and continuation lines, followed by the payload or not.
OrbitalFiles ==
    UNION {{CubeFile(-1, Full, Unit, 1, MoLines(F, idx, j), len) :
               j \in 0..Len(idx), len \in {0, F}} :
              F \in 0..MaxF, idx \in SeqsUpTo(IndexValues, MaxF + 1)}
\* Payloads shorter or longer than the grid.
PayloadFiles ==
    UNION {{CubeFile(x[1], Full, d, Abs(x[1]),
                     IF x[1] < 0 THEN MoLines(x[2], Indices(x[2]), x[2]) ELSE <<>>,
                     len) :
               len \in Max(0, d[1] * d[2] * d[3] * x[2] - MaxK)
                          ..(d[1] * d[2] * d[3] * x[2] + MaxK)} :
              d \in Dims, x \in {y \in {-1, 0} \X (1..MaxF) : y[1] = 0 => y[2] = 1}}
\* Payloads of two values, some of them with more than 24 significant bits.
PayloadValues == {3, 16777217, 16777219, -16777217}
ValueFiles ==
    {Take(GoodFile(0, <<1, 1, 2>>, 1, <<>>, 0), 6) \o <<<<Fl(v), Fl(w)>>>> :
        v \in PayloadValues, w \in PayloadValues}
ParseFiles == ShortHeaderFiles \cup CutFiles \cup AtomFiles \cup OrbitalFiles
                  \cup PayloadFiles \cup ValueFiles
ParseName == SeqName(<<"0", "1", "0">>)

InitParse ==
    /\ InitProgram
    /\ import_sequence \in BOOLEAN
    /\ naming_mode \in Modes
    /\ scale \in {1, 2}
    /\ all_files = <<ParseName>>
    /\ filepath = ParseName
    /\ \E lines \in ParseFiles : fs = [f \in {ParseName} |-> File(lines)]

ParseSpec == InitParse /\ [][Next]_vars

\* Sequence batches in which a file may declare two orbitals, give one index
\* and end there. load_cube runs on one thread that nothing stops: once the
\* plan is made, a step of the loop over the files is taken as long as there
\* is one to take.
ShortIndexFile == CubeFile(-1, Full, Unit, 1, <<<<I(2), I(5)>>>>, 0)
InitShortIndex ==
    /\ InitProgram
    /\ import_sequence = TRUE
    /\ naming_mode \in Modes
    /\ scale = 1
    /\ all_files \in Listings(MaxDir) \ {<<>>}
    /\ filepath \in Range(all_files)
    /\ fs \in [Range(all_files) ->
                  {File(GoodFile(1, Unit, 1, <<>>, 0)), File(ShortIndexFile), File(<<>>)}]

FileLoop ==
    OpenFile \/ ReadHeader \/ SkipAtoms \/ ReadMOHeader \/ IndexLoopTest
        \/ IndexLoopRead \/ ReadData \/ Finish
FairSpec == InitShortIndex /\ [][Next]_vars /\ WF_vars(FileLoop)

\* ------------------------------------------------------- the claims -----
Terminal == pc \in {"written", "raised"}
Paths(plan) == [i \in 1..Len(plan) |-> plan[i].path]
Names(recs) == [i \in 1..Len(recs) |-> recs[i].name]

\* The file name read by hand: its last dot, the digit run that ends right
\* before it, what precedes the run and what follows it.
LastDot(name) ==
    IF \E p \in 1..Len(name) : name[p] = "."
    THEN CHOOSE p \in 1..Len(name) :
             name[p] = "." /\ \A q \in (p + 1)..Len(name) : name[q] # "."
    ELSE 0
HasRun(name) ==
    LET p == LastDot(name)
    IN  p > 1 /\ p < Len(name) /\ IsDigit(name[p - 1])
RunStart(name) ==
    LET p == LastDot(name)
    IN  CHOOSE b \in 1..(p - 1) :
            /\ \A i \in b..(p - 1) : IsDigit(name[i])
            /\ b = 1 \/ ~IsDigit(name[b - 1])
Stem(name) == SubSeq(name, 1, RunStart(name) - 1)
Ext(name) == SubSeq(name, LastDot(name), Len(name))
\* f is stem + digits + ext; its digits; their value.
Run(f, stem, ext) == SubSeq(f, Len(stem) + 1, Len(f) - Len(ext))
IsSibling(f, stem, ext) ==
    /\ Len(f) > Len(stem) + Len(ext)
    /\ LET run == Run(f, stem, ext)
       IN  /\ f = stem \o run \o ext
           /\ \A i \in 1..Len(run) : IsDigit(run[i])
\* The entries of the directory that match the start path's pattern.
Siblings ==
    IF HasRun(filepath)
    THEN LET stem == Stem(filepath)
             ext == Ext(filepath)
         IN  {f \in Range(all_files) : IsSibling(f, stem, ext)}
    ELSE {}
SiblingsFound == import_sequence /\ Siblings # {}
\* text is n in decimal without leading zeros
Decimal(text, n) ==
    /\ text # <<>>
    /\ \A i \in 1..Len(text) : IsDigit(text[i])
    /\ Len(text) = 1 \/ text[1] # "0"
    /\ ParseInt(text) = n

\* C1: with import_sequence on and some entry matching, the plan (and the
\* list of files handled) is exactly the matching entries, ascending by the
\* integer value of their digit runs, each named by that integer in decimal
\* without leading zeros.
C1_SequenceOrder ==
    (pc # "start" /\ SiblingsFound) =>
        LET stem == Stem(filepath)
            ext == Ext(filepath)
            value == [i \in 1..Len(to_process) |->
                         ParseInt(Run(to_process[i].path, stem, ext))]
        IN  /\ Len(to_process) = Cardinality(Siblings)
            /\ Range(Paths(to_process)) = Siblings
            /\ \A i, j \in 1..Len(to_process) : i < j => value[i] <= value[j]
            /\ \A i \in 1..Len(to_process) : Decimal(to_process[i].name, value[i])
            /\ Terminal => Paths(log) = Paths(to_process)
\* The listing a2, a010, a001 has been handled as a001 ("1"), a2 ("2"),
\* a010 ("10").
C1_Witness ==
    /\ Terminal
    /\ all_files = <<SeqName(<<"2">>), SeqName(<<"0", "1", "0">>),
                     SeqName(<<"0", "0", "1">>)>>
    /\ Paths(log) = <<SeqName(<<"0", "0", "1">>), SeqName(<<"2">>),
                      SeqName(<<"0", "1", "0">>)>>
    /\ Names(to_process) = <<<<"1">>, <<"2">>, <<"1", "0">>>>

\* C2: the writer is called at most once, only when every file of the plan
\* has been handled, with all the accumulated grids; an empty accumulation
\* raises instead and the writer is not called.
C2_WriteOnce ==
    /\ Len(written) <= 1
    /\ written # <<>> =>
           /\ pc = "written"
           /\ Len(log) = Len(to_process)
           /\ written[1].grids = all_grids
           /\ all_grids # <<>>
    /\ pc = "written" => Len(written) = 1
    /\ pc = "raised" => all_grids = <<>> /\ written = <<>> /\ Len(log) = Len(to_process)
\* Sequence mode, a start name with digits, no entry matching, the one
\* candidate unreadable as a cube file: the run has raised, nothing written.
C2_Witness ==
    /\ pc = "raised"
    /\ import_sequence /\ HasRun(filepath) /\ Siblings = {}
    /\ fs[filepath].exists
    /\ written = <<>>

\* What the files of a directory hold, read by hand: the grids' names and
\* values per file.
OneDensity == GoodFile(1, Unit, 1, <<>>, 0)
TwoOrbitals == GoodFile(-1, Unit, 2, Indices(2), 1)
Readable(f) == fs[f].exists /\ fs[f].lines \in {OneDensity, TwoOrbitals}
ExpectedNames(f, force) ==
    IF ~fs[f].exists THEN <<>>
    ELSE IF fs[f].lines = OneDensity
         THEN <<IF force = NoName THEN Density ELSE force>>
    ELSE IF fs[f].lines = TwoOrbitals
         THEN IF force # NoName THEN <<force \o <<"_", "1">>, force \o <<"_", "2">>>>
              ELSE IF naming_mode = "MO_INDICES" THEN <<<<"5">>, <<"7">>>>
              ELSE <<<<"1">>, <<"2">>>>
    ELSE <<>>
ExpectedData(f) ==
    IF ~fs[f].exists THEN <<>>
    ELSE IF fs[f].lines = OneDensity THEN <<<<1>>>>
    ELSE IF fs[f].lines = TwoOrbitals THEN <<<<1>>, <<2>>>>
    ELSE <<>>

\* C3: a file whose parsing fails gives no grid and does not stop the files
\* after it; the batch is the grids of the files that parsed, in plan order
\* and, within a file, in field order.
C3_BadFileSkipped ==
    Terminal =>
        /\ Paths(log) = Paths(to_process)
        /\ \A i \in 1..Len(log) : log[i].ok = Readable(log[i].path)
        /\ Names(all_grids) =
               Flatten([i \in 1..Len(to_process) |->
                           ExpectedNames(to_process[i].path, to_process[i].name)])
        /\ [g \in 1..Len(all_grids) |-> all_grids[g].data] =
               Flatten([i \in 1..Len(to_process) |-> ExpectedData(to_process[i].path)])
\* A plan whose first file failed and whose second gave two grids.
C3_Witness ==
    /\ pc = "written"
    /\ Len(to_process) >= 2
    /\ ~log[1].ok /\ log[2].ok
    /\ Len(log[2].names) = 2
    /\ Len(all_grids) >= 2

\* C4: in a sequence batch no two grids of two different files have the same
\* name.
C4_NamesDistinctAcrossFiles ==
    SiblingsFound =>
        \A i, j \in 1..Len(log) :
            i # j => Range(log[i].names) \cap Range(log[j].names) = {}

\* C10: the plan is the single pair (start path, no override) when the flag
\* is off, when the name has no digit run right before its last extension,
\* and when no entry matches; otherwise no pair has an empty override.
C10_PlanDegrades ==
    pc # "start" =>
        IF ~import_sequence \/ ~HasRun(filepath) \/ Siblings = {}
        THEN to_process = <<[path |-> filepath, name |-> NoName]>>
        ELSE \A i \in 1..Len(to_process) : to_process[i].name # <<>>
\* Sequence mode, digits in the name, a non-empty directory without a match.
C10_Witness ==
    /\ pc # "start"
    /\ import_sequence /\ HasRun(filepath) /\ Siblings = {} /\ all_files # <<>>
    /\ to_process = <<[path |-> filepath, name |-> NoName]>>

\* The one file of a single-file run, and how its run ended.
TheLines == fs[ParseName].lines
ParsedOk == Len(log) = 1 /\ log[1].ok
Rejected == Len(log) = 1 /\ ~log[1].ok /\ all_grids = <<>>
Digit(n) == <<Digits[n + 1]>>
\* The name the naming policy gives field m (0-based) of F fields.
PolicyName(force, F, idx, m) ==
    IF force # NoName
    THEN IF F = 1 THEN force ELSE force \o <<"_">> \o Digit(m + 1)
    ELSE IF naming_mode = "MO_INDICES" /\ idx # <<>> THEN Digit(idx[m + 1])
    ELSE Digit(m + 1)

\* Well-formed multi-field files: F >= 1 fields declared, with F indices (or,
\* for one field, none) laid out over the header and continuation lines.
MultiInputs ==
    UNION {{[lines |-> CubeFile(-1, Full, Unit, 1, MoLines(x[1], x[2], j), x[1]),
             F |-> x[1], idx |-> x[2], j |-> j] : j \in 0..Len(x[2])} :
              x \in {y \in (1..MaxF) \X SeqsUpTo(IndexValues, MaxF) :
                        Len(y[2]) = y[1] \/ (y[1] = 1 /\ y[2] = <<>>)}}
\* The indices the reader takes up: those of a block of several fields,
\* and for a single field the one that stands on the header line.
IndicesRead(x) == IF x.F > 1 \/ x.j >= 1 THEN x.idx ELSE <<>>
NamedAsPolicy(x) ==
    /\ ParsedOk
    /\ Len(all_grids) = x.F
    /\ \A m \in 0..(x.F - 1) :
           all_grids[m + 1].name =
               PolicyName(to_process[1].name, x.F, IndicesRead(x), m)
NamesFromIndices(x) ==
    to_process[1].name = NoName /\ naming_mode = "MO_INDICES" /\ IndicesRead(x) # <<>>

\* C5 as claimed: F records named by the policy, and no two of them with the
\* same name, for every such file.
C5_NamesDistinctAlways ==
    Terminal =>
        \A x \in MultiInputs :
            TheLines = x.lines => NamedAsPolicy(x) /\ NoRepeat(Names(all_grids))
\* C5 amended: a multi-field file with F >= 1 fields gives exactly F records
\* named by the policy (forced base name, else the m-th declared index under
\* MO_INDICES, else m+1); no two have the same name unless the names are the
\* declared indices and the file declares an index twice.
C5_FieldNames ==
    Terminal =>
        \A x \in MultiInputs :
            TheLines = x.lines =>
                /\ NamedAsPolicy(x)
                /\ (NamesFromIndices(x) => NoRepeat(x.idx)) => NoRepeat(Names(all_grids))
\* Two orbitals 5 and 7 read under MO_INDICES, and two under a forced name.
C5_Witness ==
    /\ pc = "written"
    /\ \E x \in MultiInputs : TheLines = x.lines /\ x.F = 2 /\ x.idx = <<5, 7>>
    /\ \/ ~import_sequence /\ naming_mode = "MO_INDICES"
          /\ Names(all_grids) = <<<<"5">>, <<"7">>>>
       \/ import_sequence
          /\ Names(all_grids) = <<<<"1", "0", "_", "1">>, <<"1", "0", "_", "2">>>>

\* Files whose payload holds len values 1..len for a grid of E = n1*n2*n3*F.
PayloadInputs ==
    UNION {{[lines |-> CubeFile(x[1], Full, d, Abs(x[1]),
                                IF x[1] < 0 THEN MoLines(x[2], Indices(x[2]), x[2])
                                ELSE <<>>,
                                len),
             vox |-> d[1] * d[2] * d[3], F |-> x[2], len |-> len] :
               len \in Max(0, d[1] * d[2] * d[3] * x[2] - MaxK)
                          ..(d[1] * d[2] * d[3] * x[2] + MaxK)} :
              d \in Dims, x \in {y \in {-1, 0} \X (1..MaxF) : y[1] = 0 => y[2] = 1}}

\* C6: a payload of E+K values is decoded to its first E values, one of E-K
\* values to those followed by K zeros, and the file is read either way.
C6_PayloadReconciled ==
    Terminal =>
        \A x \in PayloadInputs :
            TheLines = x.lines =>
                /\ ParsedOk
                /\ Len(all_grids) = x.F
                /\ \A g \in 1..x.F :
                       /\ Len(all_grids[g].data) = x.vox
                       /\ \A v \in 1..x.vox :
                              all_grids[g].data[v] =
                                  IF (v - 1) * x.F + g <= x.len
                                  THEN (v - 1) * x.F + g ELSE 0
\* A grid of two voxels read from a payload of one value, and one of one
\* voxel read from a payload of three.
C6_Witness ==
    /\ pc = "written"
    /\ \E x \in PayloadInputs :
           /\ TheLines = x.lines /\ x.F = 1
           /\ \/ x.vox = 2 /\ x.len = 1 /\ all_grids[1].data = <<1, 0>>
              \/ x.vox = 1 /\ x.len = 3 /\ all_grids[1].data = <<1>>

\* The index loop stands at the end of the stream with indices missing.
ShortIndexAtEof ==
    /\ pc = "index_test"
    /\ pos = Len(CurLines)
    /\ Len(current_indices) < n_mo
\* C7: when the stream ends before F indices are read, the index loop ends
\* and load_cube goes on to write the batch or to raise the empty-batch error.
C7_ShortIndexBlockEnds == ShortIndexAtEof ~> Terminal

\* The four header lines are whole and the file ends inside the atom block.
AtomBlockCut ==
    /\ Len(TheLines) >= 6
    /\ \A i \in 3..6 : Len(TheLines[i]) = 4
    /\ Len(TheLines) < 6 + Abs(TheLines[3][1].v)
\* C8: a file whose atom block is cut short by the end of the stream is
\* rejected and gives no grid.
C8_CutAtomBlockRejected == (Terminal /\ AtomBlockCut) => Rejected

\* Each header line has its integer, and one of them lacks a float.
HeaderShort ==
    /\ Len(TheLines) >= 6
    /\ \A i \in 3..6 : Len(TheLines[i]) >= 1
    /\ \E i \in 3..6 : Len(TheLines[i]) < 4
\* C9: a header line with fewer than its four numbers makes the file fail,
\* however many of the three floats are missing.
C9_ShortHeaderRejected == (Terminal /\ HeaderShort) => Rejected

\* Files with their geometry d, field count F and the value sequence flat
\* left by the length reconciliation: payloads 1..len cut or zero-filled to
\* n1*n2*n3*F values, and payloads of two chosen values.
LayoutInputs ==
    UNION {{[lines |-> CubeFile(x[1], Full, d, Abs(x[1]),
                                IF x[1] < 0 THEN MoLines(x[2], Indices(x[2]), x[2])
                                ELSE <<>>,
                                len),
             d |-> d, F |-> x[2],
             flat |-> [p \in 1..(d[1] * d[2] * d[3] * x[2]) |->
                          IF p <= len THEN p ELSE 0]] :
               len \in Max(0, d[1] * d[2] * d[3] * x[2] - MaxK)
                          ..(d[1] * d[2] * d[3] * x[2] + MaxK)} :
              d \in Dims, x \in {y \in {-1, 0} \X (1..MaxF) : y[1] = 0 => y[2] = 1}}
    \cup {[lines |-> Take(GoodFile(0, <<1, 1, 2>>, 1, <<>>, 0), 6)
                         \o <<<<Fl(v), Fl(w)>>>>,
           d |-> <<1, 1, 2>>, F |-> 1, flat |-> <<v, w>>] :
             v \in PayloadValues, w \in PayloadValues}
\* The value of grid m (0-based) at voxel (i, j, k) of a grid of geometry d.
ValueAt(m, d, i, j, kk) == all_grids[m + 1].data[(i * d[2] + j) * d[3] + kk + 1]
\* flat[((i*n2 + j)*n3 + k)*F + m], flat being 0-based in the claim.
FlatAt(x, m, i, j, kk) == x.flat[((i * x.d[2] + j) * x.d[3] + kk) * x.F + m + 1]
\* w is a 32-bit float: a whole number of 24 significant bits.
Fits24(w) ==
    \E e \in 0..7 : w % Exp2(e) = 0 /\ Abs(w) \div Exp2(e) < Exp2(24)
\* g is a 32-bit float and no 32-bit float is nearer to v.
Narrowed(g, v) ==
    /\ Fits24(g)
    /\ \A w \in (v - 4)..(v + 4) : Fits24(w) => Abs(g - v) <= Abs(w - v)
\* The file gave F grids of n1*n2*n3 voxels each.
LaidOut(x) ==
    /\ ParsedOk
    /\ Len(all_grids) = x.F
    /\ \A g \in 1..x.F : Len(all_grids[g].data) = x.d[1] * x.d[2] * x.d[3]
Voxels(x) == (0..(x.d[1] - 1)) \X (0..(x.d[2] - 1)) \X (0..(x.d[3] - 1))

\* C11 as claimed: the value of grid m at voxel (i,j,k) is the very number
\* flat[((i*n2 + j)*n3 + k)*F + m], whatever the payload values are.
C11_VoxelEqualsFlat ==
    Terminal =>
        \A x \in LayoutInputs :
            TheLines = x.lines =>
                /\ LaidOut(x)
                /\ \A m \in 0..(x.F - 1) : \A c \in Voxels(x) :
                       ValueAt(m, x.d, c[1], c[2], c[3]) = FlatAt(x, m, c[1], c[2], c[3])
\* C11 amended: the value of grid m at voxel (i,j,k) is
\* flat[((i*n2 + j)*n3 + k)*F + m] narrowed to a 32-bit float (field index
\* fastest, then Z, then Y, X slowest); it is that very number when the
\* number is a 32-bit float, as in the example of the payload 1..8.
C11_VoxelOrder ==
    Terminal =>
        \A x \in LayoutInputs :
            TheLines = x.lines =>
                /\ LaidOut(x)
                /\ \A m \in 0..(x.F - 1) : \A c \in Voxels(x) :
                       /\ Narrowed(ValueAt(m, x.d, c[1], c[2], c[3]),
                                   FlatAt(x, m, c[1], c[2], c[3]))
                       /\ Fits24(FlatAt(x, m, c[1], c[2], c[3]))
                              => ValueAt(m, x.d, c[1], c[2], c[3])
                                     = FlatAt(x, m, c[1], c[2], c[3])
\* Two fields over 2x2x2 voxels read from the payload 1..16: the first grid
\* holds the odd values and the second the even ones, in payload order.
C11_Witness ==
    /\ pc = "written"
    /\ \E x \in LayoutInputs :
           /\ TheLines = x.lines /\ x.F = 2 /\ x.d = <<2, 2, 2>>
           /\ x.flat = [p \in 1..16 |-> p]
    /\ Len(all_grids) = 2
    /\ all_grids[1].data = <<1, 3, 5, 7, 9, 11, 13, 15>>
    /\ all_grids[2].data = <<2, 4, 6, 8, 10, 12, 14, 16>>
\* The example of the specification: one field over 2x2x2 voxels, payload 1..8.
ExampleRead ==
    /\ pc = "written" /\ ~import_sequence
    /\ TheLines = GoodFile(0, <<2, 2, 2>>, 1, <<>>, 0)
    /\ Names(all_grids) = <<Density>>
    /\ all_grids[1].data = <<1, 2, 3, 4, 5, 6, 7, 8>>
\* A payload value of 25 significant bits reaches the grid changed.
NarrowedRead ==
    /\ pc = "written"
    /\ \E x \in LayoutInputs : TheLines = x.lines /\ x.flat = <<16777217, 3>>
    /\ all_grids[1].data = <<16777216, 3>>

=============================================================================
